---- MODULE Spec2Model ----
(***************************************************************************)
(* Model of package kit (src/kit/kit.go): the Kit request context object   *)
(* and its response helpers, the process-wide errorHandler, the Handler    *)
(* adapter and the WithAuthentication middleware.                           *)
(*                                                                         *)
(* Each request occupies a slot of reqs.  A slot holds the inbound request,*)
(* the state of its http.ResponseWriter, the position of its goroutine and  *)
(* a record of what was invoked on its behalf.  The only state shared by    *)
(* requests is the package variable errorHandler.                           *)
(***************************************************************************)
EXTENDS Integers, Sequences, FiniteSets, TLC

\* Number of request slots served concurrently.
MaxReqs == 2
\* Frames the goroutine stack can hold before the runtime aborts the process.
MaxStack == 3

Reqs == 1..MaxReqs

\* http.StatusInternalServerError and http.StatusSeeOther.
StatusInternalServerError == 500
StatusSeeOther == 303

VARIABLES
    errorHandler,   \* the package variable errorHandler: a policy name or Nil
    crashed,        \* TRUE once the runtime has aborted the process
    reqs            \* the request slots

vars == <<errorHandler, crashed, reqs>>

-----------------------------------------------------------------------------
(* Values *)

Nil == "nil"

\* Error Policies: the package default and one supplied by the host.
DefaultPolicy == "default"
CustomPolicy == "custom"
Policies == {DefaultPolicy, CustomPolicy}

\* Error messages (err.Error()) of errors returned by probes and handlers.
ErrMsgs == {"boom", "<html>"}
EncodeErr == "json: unsupported type"

\* AuthenticationConfig.RedirectURL, and the request paths.
RedirectURL == "/login"
Paths == {"/login", "/dashboard"}

\* Values of the HX-Request request header ("" when absent).
HxValues == {"", "true"}

\* Auth values.  DefaultAuth{} is the package's own implementation; the
\* host's implementations carry a user and report what the probe decided.
DefaultAuth == [type |-> "DefaultAuth"]
Users == {"alice", "bob"}
HostAuths == [type : {"HostAuth"}, user : Users, ok : BOOLEAN]
NoAuth == [type |-> "none"]

\* DefaultAuth.Check and the host implementations' Check.
Check(a) == IF a.type = "HostAuth" THEN a.ok ELSE FALSE

\* Does a context value satisfy the Auth interface (the type assertion)?
IsAuth(v) == v.type \in {"DefaultAuth", "HostAuth"}

-----------------------------------------------------------------------------
(* context.Context: a chain of key/value pairs, innermost last *)

AuthKey == "kit.AuthKey{}"
OtherKey == "host.key"

WithValue(ctx, key, val) == Append(ctx, <<key, val>>)

RECURSIVE Value(_, _)
Value(ctx, key) ==
    IF ctx = <<>> THEN NoAuth
    ELSE IF ctx[Len(ctx)][1] = key THEN ctx[Len(ctx)][2]
    ELSE Value(SubSeq(ctx, 1, Len(ctx) - 1), key)

\* Contexts an inbound request may carry: nothing, a value under a key of
\* the host, or a value under AuthKey{} that is not an Auth.
InboundCtxs ==
    { <<>>,
      << <<OtherKey, [type |-> "HostAuth", user |-> "alice", ok |-> TRUE]>> >>,
      << <<AuthKey, [type |-> "string"]>> >> }

-----------------------------------------------------------------------------
(* http.ResponseWriter *)

HeaderNames == {"Content-Type", "HX-Redirect", "Location"}
NoHeaders == [h \in HeaderNames |-> ""]

\* A response sink nothing was written to.
FreshSink ==
    [ calls  |-> 0,          \* calls of WriteHeader
      status |-> 0,          \* status line sent (0: none yet)
      hdr    |-> NoHeaders,  \* the map Header() returns
      sent   |-> NoHeaders,  \* the headers sent with the status line
      body   |-> <<>> ]      \* the chunks written

\* Header().Set(name, value): changes the map only.
HeaderSet(w, name, value) == [w EXCEPT !.hdr[name] = value]

\* WriteHeader(status): the first call sends the status line with the
\* headers as they are now; later calls are ignored.
WriteHeader(w, status) ==
    IF w.status = 0
    THEN [w EXCEPT !.calls = @ + 1, !.status = status, !.sent = w.hdr]
    ELSE [w EXCEPT !.calls = @ + 1]

\* http.DetectContentType on the first chunk of the body.
DetectContentType(chunk) ==
    IF chunk = "<html>" THEN "text/html; charset=utf-8"
    ELSE "text/plain; charset=utf-8"

\* Write(chunk): sends the header if no one has yet (status 200), and on
\* the first non-empty chunk a response with no Content-Type gets a
\* detected one.
Write(w, chunk) ==
    LET w1 == IF w.status = 0
              THEN [w EXCEPT !.status = 200, !.sent = w.hdr]
              ELSE w
        w2 == IF w1.body = <<>> /\ w1.sent["Content-Type"] = "" /\ chunk # ""
              THEN [w1 EXCEPT !.sent["Content-Type"] = DetectContentType(chunk)]
              ELSE w1
    IN  [w2 EXCEPT !.body = Append(@, chunk)]

\* The media type of a Content-Type value, without its parameters.
MediaType(v) ==
    CASE v = "text/plain; charset=utf-8" -> "text/plain"
      [] v = "text/html; charset=utf-8"  -> "text/html"
      [] OTHER -> v

-----------------------------------------------------------------------------
(* Kit and its response helpers *)

\* An inbound *http.Request: its URL path, its HX-Request header, its context.
Requests == [Path : Paths, Hx : HxValues, ctx : InboundCtxs]

\* Kit{Response: w, Request: r}
Kit(w, r) == [Response |-> w, Request |-> r]

\* r.WithContext(ctx): a copy of the request carrying ctx.
WithContext(r, ctx) == [r EXCEPT !.ctx = ctx]

AuthUnchecked(kit) == [auth |-> Value(kit.Request.ctx, AuthKey), warned |-> 0]

\* Kit.Auth: the Auth stored under AuthKey{}, or DefaultAuth{} with a warning.
Auth(kit) ==
    LET value == Value(kit.Request.ctx, AuthKey)
        ok    == IsAuth(value)
    IN  IF ~ok
        THEN [auth |-> DefaultAuth, warned |-> 1]
        ELSE [auth |-> value, warned |-> 0]

\* Kit.Text(status, msg)
Text(kit, status, msg) ==
    LET w1 == WriteHeader(kit.Response, status)
        w2 == HeaderSet(w1, "Content-Type", "text/plain")
    IN  [w |-> Write(w2, msg), err |-> Nil, overflow |-> FALSE]

\* Kit.Bytes(status, b)
Bytes(kit, status, b) ==
    LET w1 == WriteHeader(kit.Response, status)
        w2 == HeaderSet(w1, "Content-Type", "text/plain")
    IN  [w |-> Write(w2, b), err |-> Nil, overflow |-> FALSE]

\* Values handed to Kit.JSON: an object that encodes and a channel that
\* does not.  json.Encoder.Encode writes the encoding and a newline.
JsonValues == {[kind |-> "object", a |-> 1], [kind |-> "chan"]}
Encodable(v) == v.kind # "chan"
Encode(v) == IF v.kind = "object" THEN "{\"a\":1}\n" ELSE ""

\* Kit.JSON(status, v)
JSON(kit, status, v) ==
    LET w1 == WriteHeader(kit.Response, status)
        w2 == HeaderSet(w1, "Content-Type", "application/json")
    IN  IF Encodable(v)
        THEN [w |-> Write(w2, Encode(v)), err |-> Nil, overflow |-> FALSE]
        ELSE [w |-> w2, err |-> EncodeErr, overflow |-> FALSE]

\* Kit.Redirect(status, url), entered with depth - 1 frames of itself
\* already on the stack.  Without the HX-Request header it calls itself
\* with the same arguments until the stack is exhausted.
RECURSIVE RedirectFrom(_, _, _, _)
RedirectFrom(kit, status, url, depth) ==
    IF kit.Request.Hx # ""
    THEN LET w1 == HeaderSet(kit.Response, "HX-Redirect", url)
         IN  [w |-> WriteHeader(w1, StatusSeeOther), err |-> Nil, overflow |-> FALSE]
    ELSE IF depth >= MaxStack
         THEN [w |-> kit.Response, err |-> Nil, overflow |-> TRUE]
         ELSE RedirectFrom(kit, status, url, depth + 1)

Redirect(kit, status, url) == RedirectFrom(kit, status, url, 1)

\* The body of an Error Policy.  The package default answers 500 with the
\* error's message; the host's policy answers with a page of its own.
RunErrorHandler(p, kit, err) ==
    IF p = DefaultPolicy
    THEN Text(kit, StatusInternalServerError, err).w
    ELSE Text(kit, 400, "handled").w

-----------------------------------------------------------------------------
(* Host code: the authentication probe and the business handlers *)

\* What config.AuthFunc may return: an Auth and no error, or an error.
ProbeOutcomes ==
    {[auth |-> a, err |-> Nil] : a \in HostAuths}
        \cup {[auth |-> NoAuth, err |-> e] : e \in ErrMsgs}

\* Business handlers (HandlerFunc).  Each first asks kit.Auth() who is
\* calling, then answers with a helper, or fails without answering.
HandlerKinds ==
    {[kind |-> "text"], [kind |-> "bytes"]}
        \cup {[kind |-> "fail", msg |-> e] : e \in ErrMsgs}
        \cup {[kind |-> "json", v |-> v] : v \in JsonValues}
        \cup {[kind |-> "redirect", status |-> s] : s \in {302, StatusSeeOther}}

RunHandler(h, kit) ==
    LET a   == Auth(kit)
        res == CASE h.kind = "text"     -> Text(kit, 200, "ok")
                 [] h.kind = "bytes"    -> Bytes(kit, 200, "ok")
                 [] h.kind = "fail"     -> [w |-> kit.Response, err |-> h.msg,
                                            overflow |-> FALSE]
                 [] h.kind = "json"     -> JSON(kit, 200, h.v)
                 [] h.kind = "redirect" -> Redirect(kit, h.status, RedirectURL)
    IN  [w |-> res.w, err |-> res.err, overflow |-> res.overflow,
         seen |-> a.auth, warned |-> a.warned]

-----------------------------------------------------------------------------
(* Request slots *)

\* How a route is assembled: Handler(h) alone, or
\* WithAuthentication(config, strict)(Handler(h)).
Routes ==
    {[route |-> "plain", strict |-> FALSE]}
        \cup {[route |-> "auth", strict |-> s] : s \in BOOLEAN}

AllInputs == {[route |-> rt.route, strict |-> rt.strict, req |-> q] :
                rt \in Routes, q \in Requests}

NoRequest == [Path |-> "", Hx |-> "", ctx |-> <<>>]

IdleSlot ==
    [ pc     |-> "idle",      \* where the request's goroutine is
      route  |-> "plain",
      strict |-> FALSE,
      req    |-> NoRequest,   \* the inbound request
      nreq   |-> NoRequest,   \* the request handed to Handler(h)
      w      |-> FreshSink,   \* its http.ResponseWriter
      mw     |-> "",          \* the middleware's state for this request
      auth   |-> NoAuth,      \* what the probe returned
      perr   |-> Nil,
      h      |-> [kind |-> "none"],  \* the business handler that ran
      herr   |-> Nil,         \* what the business handler returned
      chk    |-> Nil,         \* errorHandler as read by the nil check
      stale  |-> FALSE,       \* UseErrorHandler ran after the last load
      inv    |-> <<>>,        \* Error Policy invocations for this request
      how    |-> "",          \* who answered the failure
      probes |-> 0,           \* calls of config.AuthFunc
      nexts  |-> 0,           \* calls of next.ServeHTTP
      hruns  |-> 0,           \* calls of the business handler
      seen   |-> NoAuth,      \* what kit.Auth() returned to the handler
      warned |-> 0,           \* slog.Warn lines
      hcalls |-> 0,           \* WriteHeader calls made by the handler
      pcalls |-> 0 ]          \* WriteHeader calls made by policy or fallback

\* The *Kit a wrapper builds for slot r around request q.
KitOf(r, q) == Kit(reqs[r].w, q)
\* Its identity, as an Error Policy receives it.
KitRef(r, q) == [Response |-> r, Request |-> q]

Init ==
    /\ errorHandler = DefaultPolicy
    /\ crashed = FALSE
    /\ reqs = [r \in Reqs |-> IdleSlot]

-----------------------------------------------------------------------------
(* Actions *)

Set(r, slot) == reqs' = [reqs EXCEPT ![r] = slot]

InvocationOtherError(p, kit, err) == [policy |-> p, kit |-> kit, err |-> "other"]

\* One call of the Error Policy p, as recorded for the request.
Invocation(p, kit, err) == [policy |-> p, kit |-> kit, err |-> err]

\* The host's server accepts a request and hands it to its route.
Begin(r, inputs) ==
    /\ ~crashed
    /\ reqs[r].pc = "idle"
    /\ \E i \in inputs :
        Set(r, [IdleSlot EXCEPT
                   !.pc = IF i.route = "auth" THEN "probing" ELSE "handler",
                   !.mw = IF i.route = "auth" THEN "probing" ELSE "",
                   !.route = i.route, !.strict = i.strict,
                   !.req = i.req, !.nreq = i.req])
    /\ UNCHANGED <<errorHandler, crashed>>

\* func UseErrorHandler(h ErrorHandlerFunc) { errorHandler = h }
\* Every value a request loaded from the variable before is from now on a
\* value of before this assignment.
UseErrorHandler(h) ==
    /\ ~crashed
    /\ errorHandler' = h
    /\ reqs' = [r \in Reqs |->
                  IF reqs[r].pc \in {"call", "policy", "done", "panicked"}
                  THEN [reqs[r] EXCEPT !.stale = TRUE]
                  ELSE reqs[r]]
    /\ UNCHANGED crashed

MustRedirectAnyPath(strict, auth, path) == strict /\ ~Check(auth)
MustRedirectNever(strict, auth, path) == FALSE
MustRedirectAnyMode(strict, auth, path) == ~Check(auth) /\ path # RedirectURL

\* The middleware's test for redirecting:
\* strict && !auth.Check() && r.URL.Path != config.RedirectURL
MustRedirect(strict, auth, path) ==
    strict /\ ~Check(auth) /\ path # RedirectURL

AttachNothing(req, auth) == req
AttachShared(req, auth) ==
    WithContext(req, WithValue(req.ctx, AuthKey,
                    [type |-> "HostAuth", user |-> "alice", ok |-> TRUE]))

\* The request the middleware hands to next:
\* r.WithContext(context.WithValue(r.Context(), AuthKey{}, auth))
Attach(req, auth) == WithContext(req, WithValue(req.ctx, AuthKey, auth))

ProbedTwice(s, out) ==
    [s EXCEPT !.probes = @ + 2, !.auth = out.auth, !.perr = out.err]

\* auth, err := config.AuthFunc(w, r): one call of the probe, returning out.
Probed(s, out) ==
    [s EXCEPT !.probes = @ + 1, !.auth = out.auth, !.perr = out.err]

\* The handler WithAuthentication returns, from the probe to the call of
\* errorHandler, the redirect, or next.ServeHTTP.
WithAuthentication(r, outcomes) ==
    /\ ~crashed
    /\ reqs[r].pc = "probing"
    /\ \E out \in outcomes :
        LET s    == Probed(reqs[r], out)
            kit  == KitOf(r, s.req)
            res  == Redirect(kit, StatusSeeOther, RedirectURL)
        IN  IF out.err # Nil
            THEN /\ crashed' = crashed
                 /\ IF errorHandler = Nil
                    THEN Set(r, [s EXCEPT !.pc = "panicked"])
                    ELSE Set(r, [s EXCEPT
                            !.pc = "policy",
                            !.stale = FALSE,
                            !.inv = Append(@, Invocation(errorHandler,
                                        KitRef(r, s.req), out.err))])
            ELSE IF MustRedirect(s.strict, out.auth, s.req.Path)
            THEN IF res.overflow
                 THEN /\ crashed' = TRUE
                      /\ Set(r, [s EXCEPT !.pc = "overflow"])
                 ELSE /\ crashed' = crashed
                      /\ Set(r, [s EXCEPT !.pc = "done", !.mw = "redirected",
                                          !.w = res.w])
            ELSE /\ crashed' = crashed
                 /\ Set(r, [s EXCEPT !.pc = "handler", !.mw = "delegated",
                                     !.nexts = @ + 1,
                                     !.nreq = Attach(s.req, out.auth)])
    /\ UNCHANGED errorHandler

\* The handler Handler(h) returns, up to the return of h.
Handler(r, handlers) ==
    /\ ~crashed
    /\ reqs[r].pc = "handler"
    /\ \E h \in handlers :
        LET s   == reqs[r]
            res == RunHandler(h, KitOf(r, s.nreq))
            t   == [s EXCEPT !.hruns = @ + 1, !.h = h, !.seen = res.seen,
                             !.warned = @ + res.warned, !.w = res.w,
                             !.hcalls = res.w.calls - s.w.calls,
                             !.herr = res.err]
        IN  /\ crashed' = res.overflow
            /\ Set(r, [t EXCEPT !.pc = IF res.overflow THEN "overflow"
                                       ELSE IF res.err # Nil THEN "failed"
                                       ELSE "done"])
    /\ UNCHANGED errorHandler

\* if errorHandler != nil { ... } and, when it is nil, the fallback
\* kit.Text(http.StatusInternalServerError, err.Error()).
CheckErrorHandler(r) ==
    /\ ~crashed
    /\ reqs[r].pc = "failed"
    /\ LET s   == reqs[r]
           res == Text(KitOf(r, s.nreq), StatusInternalServerError, s.herr)
       IN  IF errorHandler # Nil
           THEN Set(r, [s EXCEPT !.pc = "call", !.chk = errorHandler,
                                 !.stale = FALSE])
           ELSE Set(r, [s EXCEPT !.pc = "done", !.how = "fallback",
                                 !.w = res.w,
                                 !.pcalls = res.w.calls - s.w.calls])
    /\ UNCHANGED <<errorHandler, crashed>>

LoadedPerRequest(chk, chkStale, cur) ==
    {[policy |-> p, stale |-> FALSE] : p \in Policies}

\* The values the call errorHandler(kit, err) may find in the variable:
\* the one the nil check loaded, or the one stored there now.
Loaded(chk, chkStale, cur) ==
    {[policy |-> chk, stale |-> chkStale], [policy |-> cur, stale |-> FALSE]}

\* errorHandler(kit, err) in Handler: the call itself.
CallErrorHandler(r) ==
    /\ ~crashed
    /\ reqs[r].pc = "call"
    /\ \E l \in Loaded(reqs[r].chk, reqs[r].stale, errorHandler) :
        LET s == reqs[r]
        IN  IF l.policy = Nil
            THEN Set(r, [s EXCEPT !.pc = "panicked", !.stale = l.stale])
            ELSE Set(r, [s EXCEPT
                    !.pc = "policy", !.stale = l.stale,
                    !.inv = Append(@, Invocation(l.policy,
                                KitRef(r, s.nreq), s.herr))])
    /\ UNCHANGED <<errorHandler, crashed>>

\* The Error Policy runs and returns; the wrapper returns after it.
ErrorHandlerReturns(r) ==
    /\ ~crashed
    /\ reqs[r].pc = "policy"
    /\ LET s    == reqs[r]
           call == s.inv[Len(s.inv)]
           w1   == RunErrorHandler(call.policy,
                                   KitOf(r, call.kit.Request), call.err)
       IN  Set(r, [s EXCEPT !.pc = "done", !.how = "policy", !.w = w1,
                            !.pcalls = w1.calls - s.w.calls,
                            !.mw = IF s.mw = "probing" THEN "error-handled"
                                   ELSE @])
    /\ UNCHANGED <<errorHandler, crashed>>

\* The server is done with the request (or has recovered its panic).
Retire(r) ==
    /\ ~crashed
    /\ reqs[r].pc \in {"done", "panicked"}
    /\ Set(r, IdleSlot)
    /\ UNCHANGED <<errorHandler, crashed>>

\* One request at a time, of every kind, while the host may replace the
\* Error Policy at any moment.
Next ==
    \/ \E h \in Policies \cup {Nil} : UseErrorHandler(h)
    \/ Begin(1, AllInputs)
    \/ WithAuthentication(1, ProbeOutcomes)
    \/ Handler(1, HandlerKinds)
    \/ CheckErrorHandler(1)
    \/ CallErrorHandler(1)
    \/ ErrorHandlerReturns(1)
    \/ Retire(1)

Spec == Init /\ [][Next]_vars

\* Requests served concurrently, one goroutine each.
ConcInputs ==
    {i \in AllInputs : /\ i.strict = FALSE
                       /\ i.req = [Path |-> "/dashboard", Hx |-> "", ctx |-> <<>>]}
ConcOutcomes ==
    { [auth |-> [type |-> "HostAuth", user |-> "alice", ok |-> TRUE], err |-> Nil],
      [auth |-> [type |-> "HostAuth", user |-> "bob", ok |-> FALSE], err |-> Nil],
      [auth |-> NoAuth, err |-> "boom"] }
ConcHandlers == {[kind |-> "text"], [kind |-> "fail", msg |-> "boom"]}

NextConc ==
    \/ \E h \in Policies \cup {Nil} : UseErrorHandler(h)
    \/ \E r \in Reqs :
        \/ Begin(r, ConcInputs)
        \/ WithAuthentication(r, ConcOutcomes)
        \/ Handler(r, ConcHandlers)
        \/ CheckErrorHandler(r)
        \/ CallErrorHandler(r)
        \/ ErrorHandlerReturns(r)
        \/ Retire(r)

SpecConc == Init /\ [][NextConc]_vars

-----------------------------------------------------------------------------
(* Properties *)

\* The last Error Policy invocation recorded for a slot.
LastCall(s) == s.inv[Len(s.inv)]

\* The business handler of slot s has run and the adapter is through.
Served(s) == s.hruns = 1 /\ s.pc \in {"done", "panicked"}

\* A response that redirects to url.
RedirectsTo(w, url) ==
    /\ w.status \in 300..399
    /\ \/ w.sent["Location"] = url
       \/ w.sent["HX-Redirect"] = url

\* C1 (as stated): for every error e a wrapped handler returns, the adapter
\* invokes the registered Error Policy exactly once with e and the
\* request's Kit; without an error it invokes none.
C1_PolicyExactlyOnce ==
    \A r \in Reqs :
        LET s == reqs[r]
        IN  Served(s) =>
              IF s.herr # Nil
              THEN /\ Len(s.inv) = 1
                   /\ s.inv[1].policy \in Policies
                   /\ s.inv[1].kit = KitRef(r, s.nreq)
                   /\ s.inv[1].err = s.herr
              ELSE s.inv = <<>>

\* C1 (amended): for every error e a wrapped handler returns, the adapter
\* invokes the Error Policy at most once, with e and the request's Kit:
\* exactly once when the value it loads from errorHandler is a policy,
\* and not at all, writing e's message itself (the fallback), when its nil
\* check finds the variable unset; without an error it invokes none.
C1_PolicyOnceOrFallback ==
    \A r \in Reqs :
        LET s == reqs[r]
        IN  /\ s.hruns = 1 /\ s.pc = "policy" =>
                /\ Len(s.inv) = 1
                /\ s.inv[1].policy \in Policies
                /\ s.inv[1].kit = KitRef(r, s.nreq)
                /\ s.inv[1].err = s.herr
            /\ Served(s) /\ s.herr = Nil => s.inv = <<>> /\ s.how = ""
            /\ Served(s) /\ s.herr # Nil =>
                /\ Len(s.inv) <= 1
                /\ \A i \in 1..Len(s.inv) :
                       /\ s.inv[i].policy \in Policies
                       /\ s.inv[i].kit = KitRef(r, s.nreq)
                       /\ s.inv[i].err = s.herr
                /\ s.pc = "done" =>
                       \/ s.how = "policy" /\ Len(s.inv) = 1 /\ s.chk \in Policies
                       \/ /\ s.how = "fallback" /\ s.inv = <<>> /\ s.chk = Nil
                          /\ s.pcalls = 1
                          /\ s.w.body[Len(s.w.body)] = s.herr
                /\ s.pc = "panicked" => s.inv = <<>>

\* C1 witness: a handler's error was handed to the host's policy, once.
C1_Witness ==
    \E r \in Reqs :
        /\ Served(reqs[r]) /\ reqs[r].herr = "boom"
        /\ reqs[r].inv = <<Invocation(CustomPolicy, KitRef(r, reqs[r].nreq), "boom")>>

\* C2: in strict mode a request whose probe reports not-authenticated and
\* whose path is not the redirect target gets a redirect response to the
\* target, and the wrapped handler is never invoked.
C2_StrictRedirects ==
    \A r \in Reqs :
        LET s == reqs[r]
        IN  /\ s.route = "auth" /\ s.strict /\ s.probes = 1 /\ s.perr = Nil
            /\ ~Check(s.auth) /\ s.req.Path # RedirectURL
            => /\ s.nexts = 0 /\ s.hruns = 0
               /\ RedirectsTo(s.w, RedirectURL)

\* C3: in strict mode a request for the redirect target whose probe
\* succeeds is not redirected by the middleware; the wrapped handler is
\* invoked, on a response nothing was written to.
C3_TargetNeverRedirected ==
    \A r \in Reqs :
        LET s == reqs[r]
        IN  /\ s.route = "auth" /\ s.strict /\ s.probes = 1 /\ s.perr = Nil
            /\ s.req.Path = RedirectURL
            => /\ s.mw = "delegated" /\ s.nexts = 1
               /\ s.pc = "handler" => s.w = FreshSink
               /\ s.pc \in {"done", "failed", "call", "policy", "panicked"}
                    => s.hruns = 1

\* C3 witness: an unauthenticated request for the redirect target reached
\* the business handler in strict mode.
C3_Witness ==
    \E r \in Reqs :
        /\ reqs[r].route = "auth" /\ reqs[r].strict
        /\ reqs[r].req.Path = RedirectURL /\ ~Check(reqs[r].auth)
        /\ reqs[r].mw = "delegated" /\ reqs[r].hruns = 1 /\ reqs[r].pc = "done"

\* C4: when the probe returns an error the middleware invokes the Error
\* Policy exactly once with the request's Kit and that error and stops: no
\* redirect, no wrapped handler, no Auth attached to the request.
C4_ProbeErrorHandled ==
    \A r \in Reqs :
        LET s == reqs[r]
        IN  s.probes = 1 /\ s.perr # Nil =>
              /\ Len(s.inv) = 1
              /\ s.inv[1].policy \in Policies
              /\ s.inv[1].kit = KitRef(r, s.req)
              /\ s.inv[1].err = s.perr
              /\ s.nexts = 0 /\ s.hruns = 0 /\ s.mw # "redirected"
              /\ s.nreq = s.req

\* C5: whenever the middleware delegates, kit.Auth() called by the handler
\* downstream returns the Auth the probe returned for that request; an
\* authenticated result checks true downstream.
C5_AuthSeenDownstream ==
    \A r \in Reqs :
        LET s == reqs[r]
        IN  s.mw = "delegated" /\ s.hruns = 1 =>
              /\ s.seen = s.auth
              /\ Check(s.auth) => Check(s.seen)
              /\ s.warned = 0

\* C5 witness: a handler behind the middleware saw an authenticated
\* caller, on a request that came in with something else under AuthKey{}.
C5_Witness ==
    \E r \in Reqs :
        /\ reqs[r].mw = "delegated" /\ reqs[r].hruns = 1
        /\ Check(reqs[r].seen) /\ reqs[r].seen.user = "bob"
        /\ Value(reqs[r].req.ctx, AuthKey) = [type |-> "string"]

\* C6: kit.Auth() never fails; on a request whose context has no Auth
\* under AuthKey{} (none at all, or a value of another type) it logs one
\* warning and returns DefaultAuth{}, whose Check() is false.
C6_AuthDefaultsToDeny ==
    \A r \in Reqs :
        LET s == reqs[r]
        IN  s.hruns = 1 =>
              /\ IsAuth(s.seen)
              /\ ~IsAuth(Value(s.nreq.ctx, AuthKey)) =>
                    /\ s.seen = DefaultAuth
                    /\ ~Check(s.seen)
                    /\ s.warned = 1

\* C6 witness: a handler no middleware ran for asked kit.Auth() on a
\* context holding a string under AuthKey{}.
C6_Witness ==
    \E r \in Reqs :
        /\ reqs[r].route = "plain" /\ reqs[r].hruns = 1
        /\ Value(reqs[r].nreq.ctx, AuthKey) = [type |-> "string"]
        /\ reqs[r].seen = DefaultAuth /\ reqs[r].warned = 1

\* C7: the default Error Policy answers any error e with status 500, a
\* body equal to e's message, and Content-Type text/plain among the
\* headers sent.
C7_DefaultPolicyResponse ==
    \A r \in Reqs :
        LET s == reqs[r]
        IN  /\ s.pc = "done" /\ s.how = "policy"
            /\ LastCall(s).policy = DefaultPolicy
            /\ s.hcalls = 0
            => /\ s.w.status = StatusInternalServerError
               /\ s.w.body = <<LastCall(s).err>>
               /\ MediaType(s.w.sent["Content-Type"]) = "text/plain"

\* C8: every request served through the adapter has exactly one response
\* write sequence (one WriteHeader), by the handler or by the Error Policy
\* or fallback, never by both.
C8_OneWriteSequence ==
    \A r \in Reqs :
        LET s == reqs[r]
        IN  s.hruns = 1 /\ s.pc = "done" =>
              /\ s.w.calls = 1
              /\ ~(s.hcalls > 0 /\ s.pcalls > 0)

\* C9: Redirect(status, url) answers a request carrying HX-Request with
\* the header HX-Redirect: url and status 303 whatever the status
\* argument, and any other request with a redirect to url (Location) with
\* the status asked for.
C9_RedirectResponse ==
    \A r \in Reqs :
        LET s == reqs[r]
        IN  s.h.kind = "redirect" =>
              IF s.nreq.Hx # ""
              THEN /\ s.w.sent["HX-Redirect"] = RedirectURL
                   /\ s.w.status = StatusSeeOther
              ELSE /\ s.w.sent["Location"] = RedirectURL
                   /\ s.w.status = s.h.status

\* C10 (as stated): two requests in flight at the same time never have
\* their failures handled by two different policies.
C10_SamePolicyInFlight ==
    \A r1, r2 \in Reqs :
        reqs[r1].pc = "policy" /\ reqs[r2].pc = "policy"
            => LastCall(reqs[r1]).policy = LastCall(reqs[r2]).policy

\* C10 (amended): errorHandler holds one value at any instant, and a
\* failure is handled by the value its request loaded; requests no
\* UseErrorHandler call has followed the load of are handled by the policy
\* registered now, hence all by the same one.
C10_SamePolicyBetweenSets ==
    /\ errorHandler \in Policies \cup {Nil}
    /\ \A r \in Reqs :
        reqs[r].inv # <<>> /\ ~reqs[r].stale
            => LastCall(reqs[r]).policy = errorHandler
    /\ \A r1, r2 \in Reqs :
        /\ reqs[r1].pc = "policy" /\ reqs[r2].pc = "policy"
        /\ ~reqs[r1].stale /\ ~reqs[r2].stale
        => LastCall(reqs[r1]).policy = LastCall(reqs[r2]).policy

\* C10 witness: two failed requests are inside the host's policy at the
\* same time.
C10_Witness ==
    \E r1, r2 \in Reqs :
        /\ r1 # r2
        /\ reqs[r1].pc = "policy" /\ reqs[r2].pc = "policy"
        /\ ~reqs[r1].stale /\ ~reqs[r2].stale
        /\ LastCall(reqs[r1]).policy = CustomPolicy
        /\ LastCall(reqs[r2]).policy = CustomPolicy

\* json.Decoder.Decode of a body Kit.JSON wrote.
Decode(text) ==
    IF text = "{\"a\":1}\n" THEN [kind |-> "object", a |-> 1]
    ELSE [kind |-> "invalid"]

\* C11: JSON(status, v) answers an encodable v with the given status, the
\* header Content-Type: application/json among the headers sent, and a body
\* that decodes back to v; for a v that cannot be encoded it returns the
\* serialization error to its caller.
C11_JSONResponse ==
    \A r \in Reqs :
        LET s == reqs[r]
        IN  s.hruns = 1 /\ s.h.kind = "json" =>
              IF Encodable(s.h.v)
              THEN /\ s.herr = Nil
                   /\ s.w.status = 200
                   /\ s.w.body = <<Encode(s.h.v)>>
                   /\ Decode(s.w.body[1]) = s.h.v
                   /\ MediaType(s.w.sent["Content-Type"]) = "application/json"
              ELSE s.herr = EncodeErr

\* C12: a request entering the middleware starts in "probing" and, the
\* probe and the wrapped handler returning, ends in exactly one of
\* "error-handled", "redirected", "delegated": as long as it is in
\* "probing" its goroutine is at a step that leads to one of them, with or
\* without the HX-Request header.
C12_MiddlewareTerminates ==
    \A r \in Reqs :
        LET s == reqs[r]
        IN  s.route = "auth" /\ s.pc # "idle" =>
              \/ s.mw \in {"error-handled", "redirected", "delegated"}
              \/ /\ s.mw = "probing"
                 /\ s.pc \in {"probing", "policy"}
                 /\ ~crashed

\* C13: with the Error Policy unset (UseErrorHandler(nil)) and a wrapped
\* handler returning error e, the adapter falls back to writing status 500
\* with e's message as plain text, exactly once.
C13_FallbackResponse ==
    \A r \in Reqs :
        LET s == reqs[r]
        IN  s.pc = "done" /\ s.how = "fallback" =>
              /\ s.inv = <<>>
              /\ s.pcalls = 1
              /\ s.w.status = StatusInternalServerError
              /\ s.w.body = <<s.herr>>
              /\ MediaType(s.w.sent["Content-Type"]) = "text/plain"

\* C14: in strict mode the wrapped handler is invoked for a request only
\* if the probe returned no error and the result checks true or the path
\* is the redirect target; no unauthenticated request for another path ever
\* reaches it, whatever requests were served before.
C14_StrictGate ==
    \A r \in Reqs :
        LET s == reqs[r]
        IN  s.route = "auth" /\ s.strict /\ (s.nexts > 0 \/ s.hruns > 0) =>
              /\ s.probes = 1 /\ s.perr = Nil /\ IsAuth(s.auth)
              /\ Check(s.auth) \/ s.req.Path = RedirectURL

\* C14 witness: an authenticated request for another path than the
\* redirect target reached the business handler in strict mode.
C14_Witness ==
    \E r \in Reqs :
        /\ reqs[r].route = "auth" /\ reqs[r].strict
        /\ Check(reqs[r].auth) /\ reqs[r].req.Path = "/dashboard"
        /\ reqs[r].nexts = 1 /\ reqs[r].hruns = 1 /\ reqs[r].pc = "done"

\* C15: in non-strict mode the middleware never redirects: whenever the
\* probe succeeds, whatever the result checks and whatever the path, the
\* result is attached to a derived context and the wrapped handler is
\* invoked exactly once with the request carrying it.
C15_NonStrictDelegates ==
    \A r \in Reqs :
        LET s == reqs[r]
        IN  s.route = "auth" /\ ~s.strict /\ s.probes = 1 /\ s.perr = Nil =>
              /\ s.mw = "delegated" /\ s.nexts = 1
              /\ s.nreq = [s.req EXCEPT
                             !.ctx = Append(s.req.ctx, <<AuthKey, s.auth>>)]
              /\ s.pc = "handler" => s.w = FreshSink /\ s.hruns = 0
              /\ s.pc # "handler" => s.hruns = 1

\* C15 witness: an unauthenticated request for a path other than the
\* redirect target was served by the business handler in non-strict mode.
C15_Witness ==
    \E r \in Reqs :
        /\ reqs[r].route = "auth" /\ ~reqs[r].strict
        /\ reqs[r].probes = 1 /\ ~Check(reqs[r].auth)
        /\ reqs[r].req.Path = "/dashboard"
        /\ reqs[r].hruns = 1 /\ reqs[r].pc = "done"
        /\ reqs[r].seen = reqs[r].auth

\* C16: under any interleaving of UseErrorHandler calls with a request
\* whose wrapped handler returned an error, the adapter never calls an
\* unset (nil) Error Policy; the request ends with a registered policy's
\* response or with the 500 fallback.
C16_NeverCallsNil ==
    \A r \in Reqs :
        LET s == reqs[r]
        IN  s.hruns = 1 /\ s.herr # Nil =>
              /\ s.pc # "panicked"
              /\ s.pc = "done" => s.how \in {"policy", "fallback"}

\* C17: the middleware calls the probe exactly once per request, before
\* any redirect, Error Policy invocation or wrapped-handler invocation for
\* it, and never again; the wrapped handler is invoked at most once.
C17_ProbeOnceFirst ==
    \A r \in Reqs :
        LET s == reqs[r]
        IN  /\ s.hruns <= 1 /\ s.nexts <= 1
            /\ s.route = "auth" /\ s.pc # "idle" =>
                 /\ s.probes <= 1
                 /\ s.pc # "probing" => s.probes = 1
                 /\ s.probes = 0 =>
                      /\ s.w = FreshSink /\ s.inv = <<>>
                      /\ s.nexts = 0 /\ s.hruns = 0 /\ s.mw = "probing"

\* C17 witness: a request went through the probe and then through the
\* business handler, once each.
C17_Witness ==
    \E r \in Reqs :
        /\ reqs[r].route = "auth" /\ reqs[r].pc = "done"
        /\ reqs[r].probes = 1 /\ reqs[r].nexts = 1 /\ reqs[r].hruns = 1

\* C18: with requests handled concurrently, kit.Auth() called for a request
\* returns the Auth the probe produced for that request (DefaultAuth{} where
\* no middleware ran), never one produced for another request, and
\* attaching it leaves the inbound request's context as it came in.
C18_AuthIsolation ==
    \A r \in Reqs :
        LET s == reqs[r]
        IN  /\ s.hruns = 1 =>
                 s.seen = IF s.route = "auth" THEN s.auth ELSE DefaultAuth
            /\ s.mw = "delegated" =>
                 /\ s.req \in Requests
                 /\ ~IsAuth(Value(s.req.ctx, AuthKey))
                 /\ Value(s.nreq.ctx, AuthKey) = s.auth

\* C18 witness: two requests in flight at once, each past its handler,
\* each having seen its own probe's result.
C18_Witness ==
    \E r1, r2 \in Reqs :
        /\ r1 # r2
        /\ reqs[r1].pc = "failed" /\ reqs[r2].pc = "failed"
        /\ reqs[r1].mw = "delegated" /\ reqs[r2].mw = "delegated"
        /\ reqs[r1].seen.user = "alice" /\ reqs[r2].seen.user = "bob"

====
